---- MODULE Spec2Model ----
(***************************************************************************)
(* Model of scripts/generate.py of bids-dandisets/scripts: the batch       *)
(* driver run(), the per-Dandiset pipeline _convert_dandiset() with its    *)
(* skip/run decision on the published run_info.json, the publish writer    *)
(* _write_bids_dandiset() and _push_changes().                             *)
(***************************************************************************)
EXTENDS Integers, Sequences, FiniteSets, TLC

(***************************************************************************)
(* Bounds of the model.                                                    *)
(***************************************************************************)
NumDandisets == 2
MaxPasses == 2
MaxLimit == 1
MaxTrialLimit == 2

(***************************************************************************)
(* Python values.  An optional value is a sequence of length 0 or 1.       *)
(***************************************************************************)
None == << >>
Some(x) == << x >>

Min(a, b) == IF a <= b THEN a ELSE b

(***************************************************************************)
(* Version strings.  A string such as "v0.10.0-2-g1a2b3c" is kept as its   *)
(* optional "v" prefix and its "-"-separated segments: a dotted release    *)
(* number, a commit count, an abbreviated commit hash.                     *)
(***************************************************************************)
Str(v, segs) == [v |-> v, segs |-> segs]
Rel(n) == [k |-> "rel", n |-> n]
Num(i) == [k |-> "num", n |-> << i >>]
Hash == [k |-> "hash", n |-> << >>]

EmptyString == Str(FALSE, << >>)

\* Outputs of `git describe --tags --always` in the nwb2bids checkout.
DescribeOutputs ==
    { Str(TRUE, << Rel(<< 0, 9, 0 >>) >>),
      Str(TRUE, << Rel(<< 0, 10 >>) >>),
      Str(TRUE, << Rel(<< 0, 10, 0 >>), Num(2), Hash >>),
      Str(FALSE, << Hash >>) }

removeprefix_v(s) == [s EXCEPT !.v = FALSE]

split_dash_2(s) == [s EXCEPT !.segs = SubSeq(s.segs, 1, Min(2, Len(s.segs)))]

\* packaging.version.Version(...): the parsed version, or InvalidVersion.
InvalidVersion == [valid |-> FALSE, release |-> << >>, post |-> None]

Version(s) ==
    IF s.segs = << >> THEN InvalidVersion
    ELSE IF s.segs[1].k # "rel" THEN InvalidVersion
    ELSE IF Len(s.segs) >= 2 /\ s.segs[2].k # "num" THEN InvalidVersion
    ELSE [valid |-> TRUE,
          release |-> s.segs[1].n,
          post |-> IF Len(s.segs) >= 2 THEN s.segs[2].n ELSE None]

ParseTag(s) == Version(split_dash_2(removeprefix_v(s)))

At(s, i) == IF i <= Len(s) THEN s[i] ELSE 0

RECURSIVE ReleaseCmp(_, _, _)
ReleaseCmp(a, b, i) ==
    IF i > Len(a) /\ i > Len(b) THEN 0
    ELSE IF At(a, i) < At(b, i) THEN 0 - 1
    ELSE IF At(a, i) > At(b, i) THEN 1
    ELSE ReleaseCmp(a, b, i + 1)

PostKey(p) == IF p.post = None THEN 0 - 1 ELSE p.post[1]

\* a >= b on parsed versions
VersionGE(a, b) ==
    LET c == ReleaseCmp(a.release, b.release, 1)
    IN  c > 0 \/ (c = 0 /\ PostKey(a) >= PostKey(b))

(***************************************************************************)
(* The body of run_info.json as the raw-content fetch returns it.          *)
(***************************************************************************)
RunInfoBody(version, sessions) ==
    [kind |-> "object", nwb2bids_version |-> version, nwb2bids_branch |-> None,
     limit |-> sessions, sessions_converted |-> None, total_sessions |-> None]

NotJson == [kind |-> "text", nwb2bids_version |-> None, limit |-> None]
JsonArray == [kind |-> "array", nwb2bids_version |-> None, limit |-> None]

Limits == {None} \cup {Some(n) : n \in 1..MaxLimit}

Response(code, body) == [status_code |-> code, body |-> body]

\* previous_run_info.get("limit", None) or 0
previous_session_limit(body) == IF body.limit = None THEN 0 ELSE body.limit[1]

session_limit_not_exceeded(LIMIT, body) ==
    LIMIT = None \/ LIMIT[1] <= previous_session_limit(body)

\* Lines 150-169 without the branch of line 168: a 403 falls through to the clone.
Reconcile_without_403(response, version, LIMIT) ==
    IF response.status_code = 200
    THEN IF response.body.kind # "object" THEN "raise"
         ELSE LET given == response.body.nwb2bids_version
                  previous == ParseTag(IF given = None THEN EmptyString ELSE given[1])
                  current == ParseTag(version)
              IN  IF ~previous.valid \/ ~current.valid THEN "raise"
                  ELSE IF VersionGE(previous, current)
                          /\ session_limit_not_exceeded(LIMIT, response.body)
                       THEN "skip"
                       ELSE "run"
    ELSE "run"

\* Lines 150-169: "skip", "run", "abstain" (403) or "raise" (an exception).
Reconcile(response, version, LIMIT) ==
    IF response.status_code = 200
    THEN IF response.body.kind # "object" THEN "raise"
         ELSE LET given == response.body.nwb2bids_version
                  previous == ParseTag(IF given = None THEN EmptyString ELSE given[1])
                  current == ParseTag(version)
              IN  IF ~previous.valid \/ ~current.valid THEN "raise"
                  ELSE IF VersionGE(previous, current)
                          /\ session_limit_not_exceeded(LIMIT, response.body)
                       THEN "skip"
                       ELSE "run"
    ELSE IF response.status_code = 403 THEN "abstain"
    ELSE "run"


(***************************************************************************)
(* State.                                                                  *)
(***************************************************************************)
VARIABLES
    run_info,                   \* nwb2bids_version, nwb2bids_branch (lines 82-88)
    LIMIT_SESSIONS,             \* module constant of line 29, None or Some(n)
    MAX_WORKERS,                \* module constant of line 28, None or Some(n)
    dataset_converter,          \* what nwb2bids makes of each Dandiset (line 216)
    limit,                      \* parameter of run(), None or Some(K)
    listing,                    \* identifiers as client.get_dandisets() lists them
    dandisets,                  \* the sorted catalog of line 92
    pass,                       \* number of the current invocation of run()
    lastPass,                   \* invocations explored from this initial state
    runState,                   \* position of run()
    submitted,                  \* loop counter of lines 98/113
    pc,                         \* position of each _convert_dandiset call
    bids_dandiset_branch_name,  \* local of line 124/180, per call
    raised,                     \* exceptions caught at line 249 in this pass
    exception,                  \* what the handler of line 249 caught, per call
    log_writes,                 \* failure records written in this pass
    logs,                       \* files of PARALLEL_LOG_DIRECTORY
    mirror,                     \* GitHub repository bids-dandisets/<id>
    remote,                     \* its branches: files and run_info.json
    repo,                       \* BASE_DIRECTORY/<id>: the local clone
    messages,                   \* dataset_converter.messages is non-empty
    decision,                   \* the responses a call received and what it did
    previous,                   \* how each call ended in the pass before this one
    trial                       \* drawn inputs of a function and its result

vars == << run_info, LIMIT_SESSIONS, MAX_WORKERS, dataset_converter, limit, listing, dandisets, pass, lastPass, runState,
           submitted, pc, bids_dandiset_branch_name, raised, exception, log_writes,
           logs, mirror, remote, repo, messages, decision, previous, trial >>

Ids == 1..NumDandisets

(***************************************************************************)
(* Identifiers of Dandisets are strings of six decimal digits ("000003"),  *)
(* kept as sequences of digits.  A Dandiset is named u in the model when   *)
(* its identifier reads as the number u.                                   *)
(***************************************************************************)
IdentifierWidth == 6

RECURSIVE Digits(_, _)
Digits(n, width) ==
    IF width = 0 THEN << >> ELSE Append(Digits(n \div 10, width - 1), n % 10)

Identifier(u) == Digits(u, IdentifierWidth)

\* int(dandiset.identifier), line 92
RECURSIVE int(_)
int(s) ==
    IF s = << >> THEN 0 ELSE 10 * int(SubSeq(s, 1, Len(s) - 1)) + s[Len(s)]

\* list.sort is stable: an element goes after those whose key is not greater.
Insert(sorted, d) ==
    LET n == Cardinality({i \in 1..Len(sorted) : int(sorted[i]) <= int(d)})
    IN  SubSeq(sorted, 1, n) \o << d >> \o SubSeq(sorted, n + 1, Len(sorted))

\* dandisets.sort(key=lambda dandiset: int(dandiset.identifier)), line 92
RECURSIVE sort_by_int(_)
sort_by_int(s) ==
    IF s = << >> THEN << >>
    ELSE Insert(sort_by_int(SubSeq(s, 1, Len(s) - 1)), s[Len(s)])

\* The characters of an identifier.
DigitChars == << "0", "1", "2", "3", "4", "5", "6", "7", "8", "9" >>
Chars(dandiset_id) == [i \in 1..Len(dandiset_id) |-> DigitChars[dandiset_id[i] + 1]]

\* Line 103 with every call given the base directory
repo_directory_shared(dandiset_id) == << "BASE_DIRECTORY" >>

\* Line 103: BASE_DIRECTORY / dandiset_id
repo_directory(dandiset_id) == << "BASE_DIRECTORY" >> \o << Chars(dandiset_id) >>

\* Line 250: PARALLEL_LOG_DIRECTORY / f"{dandiset_id}_{bids_dandiset_branch_name}.log"
log_file_path(dandiset_id, branch_name) ==
    << "BASE_DIRECTORY", << ".", "parallel_logs" >> >>
        \o << Chars(dandiset_id) \o << "_", branch_name, ".log" >> >>

\* The Dandisets that the service lists.
Listed(u) == \E i \in 1..Len(listing) : int(listing[i]) = u

\* Lines 66-70
BRANCH_MAP == [b \in {"main", "alternative_sanitization"} |->
                 IF b = "main" THEN "draft" ELSE "basic_sanitization"]

Branches == {"draft", "basic_sanitization"}

(***************************************************************************)
(* Files of a repository.  Each file carries the pass that wrote it (0: a  *)
(* run before the first pass of the behaviour); run_info.json also carries *)
(* its content.                                                            *)
(***************************************************************************)
Artifacts == {"bidsignore", "description", "notifications", "validation_txt",
              "validation_json", "bids_subjects", "bids_toplevel", "run_info",
              "manifest_txt"}

\* Top-level directories that are not hidden: the conversion output and
\* derivatives/ (lines 205, 313).
VisibleDirectories == {"bids_subjects", "description", "notifications",
                       "validation_txt", "validation_json"}

Derivatives == {"description", "notifications", "validation_txt", "validation_json"}

NoInfo == [kind |-> "absent", nwb2bids_version |-> None, limit |-> None]

\* files: the artifacts present; info: the content of run_info.json; bids: the
\* entries of the subject directories.
EmptyTree == [files |-> [a \in Artifacts |-> None], info |-> NoInfo, bids |-> {}]

Remove(tree, names) ==
    [tree EXCEPT !.files = [a \in Artifacts |-> IF a \in names THEN None ELSE tree.files[a]],
                 !.bids = IF "bids_subjects" \in names THEN {} ELSE @]

WriteFile(tree, a, p) == [tree EXCEPT !.files[a] = Some(p)]

\* A tree as a complete run of version `version` with limit `limit` left it.
PublishedTree(p, version, sessions, notes) ==
    [files |-> [a \in Artifacts |->
                  IF a = "notifications" /\ ~notes THEN None ELSE Some(p)],
     info |-> RunInfoBody(Some(version), sessions),
     bids |-> {}]

(***************************************************************************)
(* The directory tree that the scan of lines 375-380 walks: a set of       *)
(* entries, each the path of a file or directory below the working copy.   *)
(* A name is kept with what the two patterns of the scan see of it.        *)
(***************************************************************************)
Name(text, has_ses, ends_nwb) == [text |-> text, has_ses |-> has_ses, ends_nwb |-> ends_nwb]

Dir(path) == [path |-> path, is_dir |-> TRUE]
File(path) == [path |-> path, is_dir |-> FALSE]

\* fnmatch of a name against "*ses-*" and "*.nwb"
fnmatch(name, pattern) ==
    IF pattern = "*ses-*" THEN name.has_ses
    ELSE IF pattern = "*.nwb" THEN name.ends_nwb
    ELSE FALSE

\* path lies strictly below root
Below(path, root) ==
    Len(path) > Len(root) /\ SubSeq(path, 1, Len(root)) = root

\* pathlib.Path.rglob: every entry below root whose name matches the pattern
rglob(tree, root, pattern) ==
    {n \in tree : Below(n.path, root) /\ fnmatch(n.path[Len(n.path)], pattern)}

\* Lines 375-379 without `path.is_dir()`
session_subdirectories_and_files(tree) ==
    {n \in rglob(tree, << >>, "*ses-*") : TRUE}

\* Lines 375-379
session_subdirectories(tree) ==
    {n \in rglob(tree, << >>, "*ses-*") :
        n.is_dir /\ Cardinality(rglob(tree, n.path, "*.nwb")) > 0}

\* Line 380
sessions_converted(tree) == Cardinality(session_subdirectories(tree))

(***************************************************************************)
(* What nwb2bids writes.  The entries are those of a BIDS dataset of two   *)
(* subjects: sessions whose data file lies in a datatype directory or      *)
(* directly in the session directory, a session with no data file, a       *)
(* session holding a Zarr store, and a subject without sessions.           *)
(***************************************************************************)
sub_01 == Name("sub-01", FALSE, FALSE)
sub_02 == Name("sub-02", FALSE, FALSE)
ses_01 == Name("ses-01", TRUE, FALSE)
ses_02 == Name("ses-02", TRUE, FALSE)
ses_03 == Name("ses-03", TRUE, FALSE)
ecephys == Name("ecephys", FALSE, FALSE)
nwb_1_1 == Name("sub-01_ses-01_ecephys.nwb", TRUE, TRUE)
nwb_1_2 == Name("sub-01_ses-02_ecephys.nwb", TRUE, TRUE)
tsv_1_3 == Name("sub-01_ses-03_scans.tsv", TRUE, FALSE)
nwb_2 == Name("sub-02_ecephys.nwb", FALSE, TRUE)
zarr_2_1 == Name("sub-02_ses-01_ecephys.nwb.zarr", TRUE, FALSE)

Entries ==
    { Dir(<< sub_01 >>),
      Dir(<< sub_01, ses_01 >>),
      Dir(<< sub_01, ses_01, ecephys >>),
      File(<< sub_01, ses_01, ecephys, nwb_1_1 >>),
      Dir(<< sub_01, ses_02 >>),
      File(<< sub_01, ses_02, nwb_1_2 >>),
      Dir(<< sub_01, ses_03 >>),
      File(<< sub_01, ses_03, tsv_1_3 >>),
      Dir(<< sub_02 >>),
      File(<< sub_02, nwb_2 >>),
      Dir(<< sub_02, ses_01 >>),
      Dir(<< sub_02, ses_01, zarr_2_1 >>) }

\* Every entry of a tree lies in a directory of the tree.
Closed(tree) ==
    \A n \in tree :
        Len(n.path) > 1 => Dir(SubSeq(n.path, 1, Len(n.path) - 1)) \in tree

Trees == {tree \in SUBSET Entries : Closed(tree)}

\* A converter: the number of its session_converters (line 382) and the
\* subject directories that convert_to_bids_dataset writes (line 322).
Converter(n, tree) == [session_converters |-> n, bids |-> tree]

OneSession ==
    Converter(1, { Dir(<< sub_01 >>), Dir(<< sub_01, ses_02 >>),
                   File(<< sub_01, ses_02, nwb_1_2 >>) })

Converters ==
    { Converter(0, {}),
      Converter(1, { Dir(<< sub_02 >>), File(<< sub_02, nwb_2 >>) }),
      OneSession,
      Converter(2, { Dir(<< sub_01 >>), Dir(<< sub_01, ses_01 >>),
                     Dir(<< sub_01, ses_01, ecephys >>),
                     File(<< sub_01, ses_01, ecephys, nwb_1_1 >>),
                     Dir(<< sub_01, ses_02 >>), File(<< sub_01, ses_02, nwb_1_2 >>) }),
      Converter(3, { Dir(<< sub_01 >>), Dir(<< sub_01, ses_01 >>),
                     Dir(<< sub_01, ses_01, ecephys >>),
                     File(<< sub_01, ses_01, ecephys, nwb_1_1 >>),
                     Dir(<< sub_01, ses_02 >>), File(<< sub_01, ses_02, nwb_1_2 >>),
                     Dir(<< sub_01, ses_03 >>), File(<< sub_01, ses_03, tsv_1_3 >>) }) }

NoRepo == [exists |-> FALSE, branch |-> "none", branches |-> {}, upstream |-> {},
           tree |-> EmptyTree, index |-> EmptyTree, head |-> EmptyTree]

ClonedRepo(tree) ==
    [exists |-> TRUE, branch |-> "draft", branches |-> {"draft"}, upstream |-> {"draft"},
     tree |-> tree, index |-> tree, head |-> tree]

NoRemote == [b \in Branches |-> None]

Terminal == {"skipped", "abstained", "returned", "failed", "done"}

Dispatched(u) == \E i \in 1..submitted : int(dandisets[i]) = u

Running == runState \in {"dispatching", "draining"}


(***************************************************************************)
(* _convert_dandiset, lines 123-252.                                       *)
(***************************************************************************)
Goto(u, label) == pc' = [pc EXCEPT ![u] = label]

At_(u, label) == Running /\ pc[u] = label

\* The handler of lines 249-252 re-raising: the exception reaches run().
Raise_escapes(u) ==
    /\ Goto(u, "failed")
    /\ raised' = [raised EXCEPT ![u] = @ + 1]
    /\ log_writes' = [log_writes EXCEPT ![u] = @ + 1]
    /\ logs' = logs \cup {<< u, bids_dandiset_branch_name[u] >>}
    /\ runState' = "raised"

\* The handler of lines 249-252 without line 124: before line 180 the name of
\* the log file cannot be formed and no record is written.
Raise_unnamed(u) ==
    /\ Goto(u, "failed")
    /\ raised' = [raised EXCEPT ![u] = @ + 1]
    /\ IF bids_dandiset_branch_name[u] = "unknown"
       THEN UNCHANGED << log_writes, logs >>
       ELSE /\ log_writes' = [log_writes EXCEPT ![u] = @ + 1]
            /\ logs' = logs \cup {<< u, bids_dandiset_branch_name[u] >>}
    /\ UNCHANGED runState

\* Lines 249-252: the handler of the call's try block.
Raise(u) ==
    /\ Goto(u, "failed")
    /\ raised' = [raised EXCEPT ![u] = @ + 1]
    /\ log_writes' = [log_writes EXCEPT ![u] = @ + 1]
    /\ logs' = logs \cup {<< u, bids_dandiset_branch_name[u] >>}
    /\ UNCHANGED runState

NoRaise == UNCHANGED << raised, exception, log_writes, logs, runState >>

\* An exception inside the try block of lines 125-248.  A request that gets no
\* response raises ConnectionError and a subprocess that exits with an error
\* raises RuntimeError (line 282); CommandFailed stands for an exit that the
\* state of the repositories does not explain.
Throw(u, e) == Raise(u) /\ exception' = [exception EXCEPT ![u] = e]

\* What a call neither reads with a command nor writes but for its records.
Shared == << run_info, LIMIT_SESSIONS, MAX_WORKERS, dataset_converter, limit, listing, dandisets, pass,
             lastPass, submitted, bids_dandiset_branch_name, mirror, remote, previous, trial >>

\* Lines 275-283 with every call site ignoring errors
deploy_subprocess_ignoring(returncode, ignore_errors) == "return"

\* Lines 275-283: a non-zero exit raises unless the call site ignores errors.
deploy_subprocess(returncode, ignore_errors) ==
    IF returncode # 0 /\ ~ignore_errors THEN "raise" ELSE "return"

\* The exit status of a command that succeeds or not.
Exit(succeeds) == IF succeeds THEN 0 ELSE 1

\* result.returncode of the command the call has run last (line 266)
Ran(u, returncode) == decision' = [decision EXCEPT ![u].returncode = returncode]

\* The exceptions whose cause lies outside the program and the repositories.
External == {"ConnectionError", "CommandFailed", "ConversionFailed", "JSONDecodeError"}

\* Lines 128-147 without the test of line 131: the fork is requested whatever
\* the probe answers.
probe_repo_then_fork(u) ==
    /\ At_(u, "probe")
    /\ \E ok \in BOOLEAN, code \in {IF mirror[u] = "absent" THEN 404 ELSE 200, 403} :
         IF ~ok THEN Throw(u, "ConnectionError") /\ UNCHANGED decision
         ELSE /\ NoRaise
              /\ decision' = [decision EXCEPT ![u].response = Response(code, NoInfo),
                                              ![u].probe = code]
              /\ Goto(u, IF code = 403 THEN "abstained" ELSE "fork")
    /\ UNCHANGED << run_info, LIMIT_SESSIONS, MAX_WORKERS, dataset_converter, limit, listing, dandisets, pass, lastPass,
                    submitted, bids_dandiset_branch_name, mirror, remote, repo,
                    messages, previous, trial >>

\* Lines 128-135: GET of the repository.
probe_repo(u) ==
    /\ At_(u, "probe")
    /\ \E ok \in BOOLEAN, code \in {IF mirror[u] = "absent" THEN 404 ELSE 200, 403} :
         IF ~ok THEN Throw(u, "ConnectionError") /\ UNCHANGED decision
         ELSE /\ NoRaise
              /\ decision' = [decision EXCEPT ![u].response = Response(code, NoInfo),
                                              ![u].probe = code]
              /\ Goto(u, IF code = 200 THEN "fetch_run_info"
                         ELSE IF code = 403 THEN "abstained" ELSE "fork")
    /\ UNCHANGED << run_info, LIMIT_SESSIONS, MAX_WORKERS, dataset_converter, limit, listing, dandisets, pass, lastPass,
                    submitted, bids_dandiset_branch_name, mirror, remote, repo,
                    messages, previous, trial >>

\* Lines 137-146: POST of the fork request.
fork_repo(u) ==
    /\ At_(u, "fork")
    /\ \E ok \in BOOLEAN, code \in {202, 403, 404} :
         IF ~ok
         THEN /\ Throw(u, "ConnectionError")
              /\ decision' = [decision EXCEPT ![u].forks = @ + 1]
              /\ UNCHANGED mirror
         ELSE /\ NoRaise
              /\ decision' = [decision EXCEPT ![u].response = Response(code, NoInfo),
                                              ![u].forks = @ + 1]
              /\ Goto(u, IF code = 202 THEN "sleep"
                         ELSE IF code = 403 THEN "abstained" ELSE "returned")
              /\ mirror' = IF code = 202 THEN [mirror EXCEPT ![u] = "requested"] ELSE mirror
    /\ UNCHANGED << run_info, LIMIT_SESSIONS, MAX_WORKERS, dataset_converter, limit, listing, dandisets, pass, lastPass,
                    submitted, bids_dandiset_branch_name, remote, repo, messages,
                    previous, trial >>

\* GitHub completes a requested fork: the repository holds the upstream content.
fork_completes(u) ==
    /\ mirror[u] = "requested"
    /\ mirror' = [mirror EXCEPT ![u] = "ready"]
    /\ remote' = [remote EXCEPT ![u]["draft"] = Some(EmptyTree)]
    /\ UNCHANGED << run_info, LIMIT_SESSIONS, MAX_WORKERS, dataset_converter, limit, listing, dandisets, pass, lastPass, runState,
                    submitted, pc, bids_dandiset_branch_name, raised, exception,
                    log_writes, logs, repo, messages, decision, previous, trial >>

\* Line 147
sleep_30(u) ==
    /\ At_(u, "sleep")
    /\ Goto(u, "fetch_run_info")
    /\ NoRaise
    /\ decision' = [decision EXCEPT ![u].slept = TRUE]
    /\ UNCHANGED << run_info, LIMIT_SESSIONS, MAX_WORKERS, dataset_converter, limit, listing, dandisets, pass, lastPass,
                    submitted, bids_dandiset_branch_name, mirror, remote, repo,
                    messages, previous, trial >>

\* What raw.githubusercontent.com answers for <id>/draft/.nwb2bids/run_info.json.
RawContent(u) ==
    IF mirror[u] = "ready" /\ remote[u]["draft"] # None
       /\ remote[u]["draft"][1].files["run_info"] # None
    THEN Response(200, remote[u]["draft"][1].info)
    ELSE Response(404, NoInfo)

\* Lines 149-169
fetch_run_info(u) ==
    /\ At_(u, "fetch_run_info")
    /\ \E ok \in BOOLEAN, response \in {RawContent(u), Response(403, NoInfo)} :
         LET d == Reconcile(response, run_info.nwb2bids_version, LIMIT_SESSIONS)
         IN  IF ~ok THEN Throw(u, "ConnectionError") /\ UNCHANGED decision
             ELSE /\ decision' = [decision EXCEPT ![u].response = response, ![u].did = d]
                  /\ IF d = "raise" THEN Throw(u, "InvalidVersion")
                     ELSE /\ NoRaise
                          /\ Goto(u, IF d = "skip" THEN "skipped"
                                     ELSE IF d = "abstain" THEN "abstained"
                                     ELSE "clone_or_fetch")
    /\ UNCHANGED << run_info, LIMIT_SESSIONS, MAX_WORKERS, dataset_converter, limit, listing, dandisets, pass, lastPass,
                    submitted, bids_dandiset_branch_name, mirror, remote, repo,
                    messages, previous, trial >>

\* Lines 171-178 with a `git clone` that succeeds whatever GitHub serves.
clone_or_fetch_unready(u) ==
    /\ At_(u, "clone_or_fetch")
    /\ \E ok \in BOOLEAN :
         IF ~repo[u].exists
         THEN IF ok
              THEN /\ repo' = [repo EXCEPT ![u] =
                                 ClonedRepo(IF remote[u]["draft"] = None THEN EmptyTree
                                            ELSE remote[u]["draft"][1])]
                   /\ Goto(u, "branch_map") /\ NoRaise
              ELSE Throw(u, "CommandFailed") /\ UNCHANGED repo
         ELSE /\ UNCHANGED repo
              /\ IF ok THEN Goto(u, "branch_map") /\ NoRaise ELSE Throw(u, "CommandFailed")
    /\ UNCHANGED << run_info, LIMIT_SESSIONS, MAX_WORKERS, dataset_converter, limit, listing, dandisets, pass, lastPass,
                    submitted, bids_dandiset_branch_name, mirror, remote, messages,
                    decision, previous, trial >>

\* Lines 171-178 with the directory made before the clone: a clone that fails
\* leaves a directory that is no repository, in which `git fetch` fails.
clone_or_fetch_mkdir(u) ==
    /\ At_(u, "clone_or_fetch")
    /\ \E ok \in BOOLEAN :
         LET clone == ~repo[u].exists
             returncode == Exit(ok /\ (clone => mirror[u] = "ready")
                                  /\ (~clone => repo[u].branch # "none"))
         IN  /\ Ran(u, returncode)
             /\ IF deploy_subprocess(returncode, FALSE) = "raise"
                THEN /\ Throw(u, IF ~ok THEN "CommandFailed"
                                 ELSE IF clone THEN "RuntimeError: clone"
                                 ELSE "RuntimeError: fetch")
                     /\ repo' = [repo EXCEPT ![u].exists = TRUE]
                ELSE /\ repo' = IF clone /\ returncode = 0
                                THEN [repo EXCEPT ![u] = ClonedRepo(remote[u]["draft"][1])]
                                ELSE repo
                     /\ Goto(u, "branch_map") /\ NoRaise
    /\ UNCHANGED << run_info, LIMIT_SESSIONS, MAX_WORKERS, dataset_converter, limit, listing, dandisets, pass, lastPass,
                    submitted, bids_dandiset_branch_name, mirror, remote, messages, previous, trial >>

\* Lines 171-178: `git clone` exits with an error, and leaves no directory,
\* while GitHub does not serve the repository.
clone_or_fetch(u) ==
    /\ At_(u, "clone_or_fetch")
    /\ \E ok \in BOOLEAN :
         LET clone == ~repo[u].exists
             returncode == Exit(ok /\ (clone => mirror[u] = "ready"))
         IN  /\ Ran(u, returncode)
             /\ IF deploy_subprocess(returncode, FALSE) = "raise"
                THEN /\ Throw(u, IF ok THEN "RuntimeError: clone" ELSE "CommandFailed")
                     /\ UNCHANGED repo
                ELSE /\ repo' = IF clone /\ returncode = 0
                                THEN [repo EXCEPT ![u] = ClonedRepo(remote[u]["draft"][1])]
                                ELSE repo
                     /\ Goto(u, "branch_map") /\ NoRaise
    /\ UNCHANGED << run_info, LIMIT_SESSIONS, MAX_WORKERS, dataset_converter, limit, listing, dandisets, pass, lastPass,
                    submitted, bids_dandiset_branch_name, mirror, remote, messages, previous, trial >>

\* Line 180
branch_map(u) ==
    /\ At_(u, "branch_map")
    /\ IF run_info.nwb2bids_branch \in DOMAIN BRANCH_MAP
       THEN /\ bids_dandiset_branch_name' =
                  [bids_dandiset_branch_name EXCEPT ![u] = BRANCH_MAP[run_info.nwb2bids_branch]]
            /\ Goto(u, "checkout") /\ NoRaise
       ELSE Throw(u, "KeyError") /\ UNCHANGED bids_dandiset_branch_name
    /\ UNCHANGED << run_info, LIMIT_SESSIONS, MAX_WORKERS, dataset_converter, limit, listing, dandisets, pass, lastPass,
                    submitted, mirror, remote, repo, messages, decision, previous, trial >>

\* `git checkout <branch>` knows the branch: a local one, or one of origin, of
\* which it then makes a local branch that tracks it.
KnownBranch(u, b) == b \in repo[u].branches \/ remote[u][b] # None

\* Lines 183-193.  `landed` is the branch git is on afterwards.
checkout(u) ==
    /\ At_(u, "checkout")
    /\ LET target == bids_dandiset_branch_name[u]
       IN  \E ok \in BOOLEAN, landed \in {target, "detached"} :
             IF KnownBranch(u, target)
             THEN /\ Ran(u, 0)
                  /\ repo' = [repo EXCEPT ![u].branch = landed,
                                          ![u].branches = @ \cup {target},
                                          ![u].upstream =
                                              IF target \in repo[u].branches THEN @
                                              ELSE @ \cup {target}]
                  /\ Goto(u, "get_current_branch") /\ NoRaise
             ELSE /\ Ran(u, Exit(ok))
                  /\ IF deploy_subprocess(Exit(ok), FALSE) = "raise"
                     THEN Throw(u, "CommandFailed") /\ UNCHANGED repo
                     ELSE /\ repo' = IF ok
                                     THEN [repo EXCEPT ![u].branch = landed,
                                                       ![u].branches = @ \cup {target}]
                                     ELSE repo
                          /\ Goto(u, "get_current_branch") /\ NoRaise
    /\ UNCHANGED << run_info, LIMIT_SESSIONS, MAX_WORKERS, dataset_converter, limit, listing, dandisets, pass, lastPass,
                    submitted, bids_dandiset_branch_name, mirror, remote, messages, previous, trial >>

\* Lines 195-198 without the comparison of line 196.
get_current_branch_unchecked(u) ==
    /\ At_(u, "get_current_branch")
    /\ \E ok \in BOOLEAN :
         IF ok THEN Goto(u, "pull") /\ NoRaise ELSE Throw(u, "CommandFailed")
    /\ UNCHANGED << run_info, LIMIT_SESSIONS, MAX_WORKERS, dataset_converter, limit, listing, dandisets, pass, lastPass,
                    submitted, bids_dandiset_branch_name, mirror, remote, repo,
                    messages, decision, previous, trial >>

\* Lines 195-198 with _get_current_branch, lines 402-409.
get_current_branch(u) ==
    /\ At_(u, "get_current_branch")
    /\ \E ok \in BOOLEAN :
         /\ Ran(u, Exit(ok))
         /\ IF deploy_subprocess(Exit(ok), FALSE) = "raise"
            THEN Throw(u, "CommandFailed")
            ELSE IF repo[u].branch = bids_dandiset_branch_name[u]
                 THEN Goto(u, "pull") /\ NoRaise
                 ELSE Throw(u, "RuntimeError: branch")
    /\ UNCHANGED << run_info, LIMIT_SESSIONS, MAX_WORKERS, dataset_converter, limit, listing, dandisets, pass, lastPass,
                    submitted, bids_dandiset_branch_name, mirror, remote, repo,
                    messages, previous, trial >>

\* Line 200: `git pull` needs the branch to track a branch of origin.
git_pull(u) ==
    /\ At_(u, "pull")
    /\ \E ok \in BOOLEAN :
         LET returncode == Exit(ok /\ repo[u].branch \in repo[u].upstream)
         IN  /\ Ran(u, returncode)
             /\ IF deploy_subprocess(returncode, FALSE) = "raise"
                THEN Throw(u, IF ok THEN "RuntimeError: pull" ELSE "CommandFailed")
                ELSE Goto(u, "clean") /\ NoRaise
    /\ UNCHANGED << run_info, LIMIT_SESSIONS, MAX_WORKERS, dataset_converter, limit, listing, dandisets, pass, lastPass,
                    submitted, bids_dandiset_branch_name, mirror, remote, repo,
                    messages, previous, trial >>

\* Lines 202-211
clean_repo(u) ==
    /\ At_(u, "clean")
    /\ repo' = [repo EXCEPT ![u].tree = Remove(@, VisibleDirectories)]
    /\ Goto(u, "convert") /\ NoRaise
    /\ UNCHANGED << run_info, LIMIT_SESSIONS, MAX_WORKERS, dataset_converter, limit, listing, dandisets, pass, lastPass,
                    submitted, bids_dandiset_branch_name, mirror, remote, messages,
                    decision, previous, trial >>

\* Lines 213-227: from_remote_dandiset and extract_metadata.
extract_metadata(u) ==
    /\ At_(u, "convert")
    /\ \E ok \in BOOLEAN :
         IF ok THEN Goto(u, "write_cleanup") /\ NoRaise ELSE Throw(u, "ConversionFailed")
    /\ UNCHANGED << run_info, LIMIT_SESSIONS, MAX_WORKERS, dataset_converter, limit, listing, dandisets, pass, lastPass,
                    submitted, bids_dandiset_branch_name, mirror, remote, repo,
                    messages, decision, previous, trial >>


(***************************************************************************)
(* _write_bids_dandiset, lines 293-399.                                    *)
(***************************************************************************)
Fixed == << Shared, decision >>

\* Lines 296-319: .nwb2bids/ is made, the visible directories are removed and
\* derivatives/validations/ is made anew.
write_cleanup(u) ==
    /\ At_(u, "write_cleanup")
    /\ repo' = [repo EXCEPT ![u].tree = Remove(@, VisibleDirectories)]
    /\ Goto(u, "write_convert") /\ NoRaise
    /\ UNCHANGED << Fixed, messages >>

\* Lines 321-324: the conversion writes the BIDS dataset; `notes` tells whether
\* it has left notifications in dataset_converter.messages.
convert_to_bids_dataset(u) ==
    /\ At_(u, "write_convert")
    /\ \E ok \in BOOLEAN, notes \in BOOLEAN :
         IF ok
         THEN /\ repo' = [repo EXCEPT ![u].tree =
                            [WriteFile(WriteFile(@, "bids_subjects", pass), "bids_toplevel", pass)
                               EXCEPT !.bids = @ \cup dataset_converter[u].bids]]
              /\ messages' = [messages EXCEPT ![u] = notes]
              /\ Goto(u, "write_bidsignore") /\ NoRaise
         ELSE Throw(u, "ConversionFailed") /\ UNCHANGED << repo, messages >>
    /\ UNCHANGED Fixed

\* Lines 326-327
write_bidsignore(u) ==
    /\ At_(u, "write_bidsignore")
    /\ repo' = [repo EXCEPT ![u].tree = WriteFile(@, "bidsignore", pass)]
    /\ Goto(u, "write_description") /\ NoRaise
    /\ UNCHANGED << Fixed, messages >>

\* Lines 329-336
write_description(u) ==
    /\ At_(u, "write_description")
    /\ repo' = [repo EXCEPT ![u].tree = WriteFile(@, "description", pass)]
    /\ Goto(u, "write_notifications") /\ NoRaise
    /\ UNCHANGED << Fixed, messages >>

\* Lines 339-340 without `if len(notifications_dump) > 0`
write_notifications_always(u) ==
    /\ At_(u, "write_notifications")
    /\ repo' = [repo EXCEPT ![u].tree = WriteFile(@, "notifications", pass)]
    /\ Goto(u, "validate_txt") /\ NoRaise
    /\ UNCHANGED << Fixed, messages >>

\* Lines 338-340
write_notifications(u) ==
    /\ At_(u, "write_notifications")
    /\ repo' = IF messages[u]
               THEN [repo EXCEPT ![u].tree = WriteFile(@, "notifications", pass)]
               ELSE repo
    /\ Goto(u, "validate_txt") /\ NoRaise
    /\ UNCHANGED << Fixed, messages >>

\* Lines 349-355: the exit code is ignored; the report may or may not be there.
validate_txt(u) ==
    /\ At_(u, "validate_txt")
    /\ \E code \in {0, 1}, wrote \in BOOLEAN :
         /\ Ran(u, code)
         /\ IF deploy_subprocess(code, TRUE) = "raise"
            THEN Throw(u, "CommandFailed") /\ UNCHANGED repo
            ELSE /\ repo' = IF wrote
                            THEN [repo EXCEPT ![u].tree = WriteFile(@, "validation_txt", pass)]
                            ELSE repo
                 /\ Goto(u, "validate_json") /\ NoRaise
    /\ UNCHANGED << Shared, messages >>

\* Lines 357-363
validate_json(u) ==
    /\ At_(u, "validate_json")
    /\ \E code \in {0, 1}, wrote \in BOOLEAN :
         /\ Ran(u, code)
         /\ IF deploy_subprocess(code, TRUE) = "raise"
            THEN Throw(u, "CommandFailed") /\ UNCHANGED repo
            ELSE /\ repo' = IF wrote
                            THEN [repo EXCEPT ![u].tree = WriteFile(@, "validation_json", pass)]
                            ELSE repo
                 /\ Goto(u, "reserialize") /\ NoRaise
    /\ UNCHANGED << Shared, messages >>

\* Lines 365-369: json.load raises on a report that is not JSON.
reserialize_json(u) ==
    /\ At_(u, "reserialize")
    /\ \E ok \in BOOLEAN :
         IF repo[u].tree.files["validation_json"] = None \/ ok
         THEN Goto(u, "write_run_info") /\ NoRaise
         ELSE Throw(u, "JSONDecodeError")
    /\ UNCHANGED << Fixed, repo, messages >>

\* The values of total_sessions: a number, "<LIMIT_SESSIONS>+" or "???".
Number(n) == [type |-> "int", n |-> n, text |-> ""]
AtLeast(n) == [type |-> "str", n |-> n, text |-> "+"]
Unknown == [type |-> "str", n |-> 0, text |-> "???"]

\* Lines 381-386
total_sessions(converted, converters) ==
    IF LIMIT_SESSIONS = None THEN Some(Number(converters))
    ELSE IF converted < LIMIT_SESSIONS[1] THEN Some(AtLeast(LIMIT_SESSIONS[1]))
    ELSE IF converted = LIMIT_SESSIONS[1] THEN Some(Unknown)
    ELSE None

\* Lines 374-386: dandiset_run_info
dandiset_run_info(u) ==
    LET converted == sessions_converted(repo[u].tree.bids)
    IN  [RunInfoBody(Some(run_info.nwb2bids_version), LIMIT_SESSIONS) EXCEPT
           !.nwb2bids_branch = Some(run_info.nwb2bids_branch),
           !.sessions_converted = Some(converted),
           !.total_sessions = total_sessions(converted, dataset_converter[u].session_converters)]

\* Lines 373-389: run_info.json
write_run_info(u) ==
    /\ At_(u, "write_run_info")
    /\ repo' = [repo EXCEPT ![u].tree =
                  [WriteFile(@, "run_info", pass) EXCEPT !.info = dandiset_run_info(u)]]
    /\ Goto(u, "write_manifest_txt") /\ NoRaise
    /\ UNCHANGED << Fixed, messages >>

\* Lines 391-399: manifest.txt
write_manifest_txt(u) ==
    /\ At_(u, "write_manifest_txt")
    /\ repo' = [repo EXCEPT ![u].tree = WriteFile(@, "manifest_txt", pass)]
    /\ Goto(u, "configure") /\ NoRaise
    /\ UNCHANGED << Fixed, messages >>

(***************************************************************************)
(* _configure_git_repo and _push_changes, lines 412-424.                   *)
(***************************************************************************)
\* Lines 233, 412-416
configure_git_repo(u) ==
    /\ At_(u, "configure")
    /\ \E ok \in BOOLEAN :
         /\ Ran(u, Exit(ok))
         /\ IF deploy_subprocess(Exit(ok), FALSE) = "raise"
            THEN Throw(u, "CommandFailed")
            ELSE Goto(u, "add") /\ NoRaise
    /\ UNCHANGED << Shared, repo, messages >>

\* `git add .nwb2bids` in place of `git add .`
Staged_nwb2bids_only(tree) ==
    [tree EXCEPT !.files = [a \in Artifacts |->
                              IF a \in {"run_info", "manifest_txt"} THEN tree.files[a] ELSE None]]

\* What `git add .` stages of the working tree.
Staged(tree) == tree

\* Line 420
git_add(u) ==
    /\ At_(u, "add")
    /\ \E ok \in BOOLEAN :
         /\ Ran(u, Exit(ok))
         /\ IF deploy_subprocess(Exit(ok), FALSE) = "raise"
            THEN Throw(u, "CommandFailed") /\ UNCHANGED repo
            ELSE /\ repo' = IF ok THEN [repo EXCEPT ![u].index = Staged(repo[u].tree)] ELSE repo
                 /\ Goto(u, "commit") /\ NoRaise
    /\ UNCHANGED << Shared, messages >>

\* Line 421 without ignore_errors=True: a failing commit raises.
git_commit_checked(u) ==
    /\ At_(u, "commit")
    /\ \E ok \in BOOLEAN :
         IF ok /\ repo[u].index # repo[u].head
         THEN /\ repo' = [repo EXCEPT ![u].head = repo[u].index]
              /\ Goto(u, "push") /\ NoRaise
         ELSE Throw(u, "CommandFailed") /\ UNCHANGED repo
    /\ UNCHANGED << Fixed, messages >>

\* Line 421 as `git commit && git push`: the commit is on GitHub before line 424.
git_commit_pushes(u) ==
    /\ At_(u, "commit")
    /\ \E ok \in BOOLEAN :
         IF ok /\ repo[u].index # repo[u].head
         THEN /\ repo' = [repo EXCEPT ![u].head = repo[u].index]
              /\ remote' = IF repo[u].branch \in repo[u].upstream
                           THEN [remote EXCEPT ![u][repo[u].branch] = Some(repo[u].index)]
                           ELSE remote
         ELSE UNCHANGED << repo, remote >>
    /\ Goto(u, "push") /\ NoRaise
    /\ UNCHANGED << run_info, LIMIT_SESSIONS, MAX_WORKERS, dataset_converter, limit, listing, dandisets, pass, lastPass, submitted,
                    bids_dandiset_branch_name, mirror, decision, previous, trial, messages >>

\* Line 421: a failing commit (nothing to commit, or any other failure) is ignored.
git_commit(u) ==
    /\ At_(u, "commit")
    /\ \E ok \in BOOLEAN :
         LET returncode == Exit(ok /\ repo[u].index # repo[u].head)
         IN  /\ Ran(u, returncode)
             /\ IF deploy_subprocess(returncode, TRUE) = "raise"
                THEN Throw(u, "CommandFailed") /\ UNCHANGED repo
                ELSE /\ repo' = IF returncode = 0
                                THEN [repo EXCEPT ![u].head = repo[u].index]
                                ELSE repo
                     /\ Goto(u, "push") /\ NoRaise
    /\ UNCHANGED << Shared, messages >>

\* Line 234: _push_changes(repo_directory=repo_directory, branch_name="draft")
branch_name_of_push == "draft"

\* Line 423
push_command(branch_name) ==
    IF branch_name = "draft" THEN "git push" ELSE "git push --set-upstream"

\* Lines 423-424: a plain `git push` needs the branch to track a branch of origin.
git_push(u) ==
    /\ At_(u, "push")
    /\ \E ok \in BOOLEAN :
         LET b == repo[u].branch
             can == push_command(branch_name_of_push) = "git push --set-upstream"
                    \/ b \in repo[u].upstream
             returncode == Exit(ok /\ can /\ mirror[u] = "ready")
         IN  /\ Ran(u, returncode)
             /\ IF deploy_subprocess(returncode, FALSE) = "raise"
                THEN /\ Throw(u, IF ok THEN "RuntimeError: push" ELSE "CommandFailed")
                     /\ UNCHANGED << remote, repo >>
                ELSE /\ IF returncode = 0
                        THEN /\ remote' = [remote EXCEPT ![u][b] = Some(repo[u].head)]
                             /\ repo' = [repo EXCEPT ![u].upstream = @ \cup {b}]
                        ELSE UNCHANGED << remote, repo >>
                     /\ Goto(u, "done") /\ NoRaise
    /\ UNCHANGED << run_info, LIMIT_SESSIONS, MAX_WORKERS, dataset_converter, limit, listing, dandisets, pass, lastPass,
                    submitted, bids_dandiset_branch_name, mirror, messages, previous, trial >>


(***************************************************************************)
(* run(), lines 73-120, and its termination from outside.                  *)
(***************************************************************************)
PerCall == << pc, bids_dandiset_branch_name, raised, exception, log_writes, logs,
              mirror, remote, repo, messages, decision >>

\* response: the last response received; did: what lines 152-169 decided;
\* probe: the status of line 130; forks: the requests of line 142; slept: line 147.
NoDecision == [response |-> Response(0, NoInfo), did |-> "none", probe |-> 0,
               forks |-> 0, slept |-> FALSE, returncode |-> 0]

\* No pass before this one.
NoPrevious == [pc |-> "idle", exception |-> "none"]

\* Lines 90-92 without the sort of line 92.
get_dandisets_unsorted ==
    /\ runState = "listing"
    /\ dandisets' = listing
    /\ runState' = "dispatching"
    /\ UNCHANGED << run_info, LIMIT_SESSIONS, MAX_WORKERS, dataset_converter, limit, listing, pass, lastPass, submitted,
                    PerCall, previous, trial >>

\* Lines 90-92: the catalog is listed and sorted.
get_dandisets ==
    /\ runState = "listing"
    /\ dandisets' = sort_by_int(listing)
    /\ runState' = "dispatching"
    /\ UNCHANGED << run_info, LIMIT_SESSIONS, MAX_WORKERS, dataset_converter, limit, listing, pass, lastPass, submitted,
                    PerCall, previous, trial >>

\* Lines 99-100: `limit is not None and counter >= limit`, counter = submitted.
limit_reached == limit # None /\ submitted >= limit[1]

\* Line 94: the branch of the worker pool is taken.
pool_branch == IF MAX_WORKERS = None THEN TRUE ELSE MAX_WORKERS[1] # 0

\* Line 95: the processes of the pool; os.cpu_count() of them when MAX_WORKERS
\* is None, taken to be no fewer than the Dandisets of the catalog.
max_workers == IF MAX_WORKERS = None THEN NumDandisets ELSE MAX_WORKERS[1]

\* The calls that a process of the pool is executing.
Busy == {u \in Ids : pc[u] \notin Terminal \cup {"idle", "queued"}}

\* Lines 98-109: one iteration of the loop submits the next Dandiset; a free
\* process of the pool takes the call at once, else it waits in the queue.
submit ==
    /\ runState = "dispatching"
    /\ pool_branch
    /\ submitted < Len(dandisets)
    /\ ~limit_reached
    /\ submitted' = submitted + 1
    /\ pc' = [pc EXCEPT ![int(dandisets[submitted + 1])] =
                 IF Cardinality(Busy) < max_workers THEN "probe" ELSE "queued"]
    /\ UNCHANGED << run_info, LIMIT_SESSIONS, MAX_WORKERS, dataset_converter, limit, listing, dandisets, pass, lastPass, runState,
                    bids_dandiset_branch_name, raised, exception, log_writes, logs,
                    mirror, remote, repo, messages, decision, previous, trial >>

\* A process of the pool is free and takes the call that has waited longest.
start ==
    /\ Running
    /\ Cardinality(Busy) < max_workers
    /\ \E i \in 1..submitted :
         /\ pc[int(dandisets[i])] = "queued"
         /\ \A j \in 1..(i - 1) : pc[int(dandisets[j])] # "queued"
         /\ pc' = [pc EXCEPT ![int(dandisets[i])] = "probe"]
    /\ UNCHANGED << run_info, LIMIT_SESSIONS, MAX_WORKERS, dataset_converter, limit, listing, dandisets, pass,
                    lastPass, runState, submitted, bids_dandiset_branch_name, raised, exception,
                    log_writes, logs, mirror, remote, repo, messages, decision, previous, trial >>

\* Lines 94 and 112 with MAX_WORKERS = 0: neither branch is taken and run()
\* returns.
no_branch ==
    /\ runState = "dispatching"
    /\ ~pool_branch
    /\ ~(MAX_WORKERS = Some(1))
    /\ runState' = "returned"
    /\ UNCHANGED << run_info, LIMIT_SESSIONS, MAX_WORKERS, dataset_converter, limit, listing, dandisets, pass, lastPass, submitted,
                    PerCall, previous, trial >>

\* Line 111: the loop is over.
as_completed ==
    /\ runState = "dispatching"
    /\ pool_branch
    /\ submitted = Len(dandisets) \/ limit_reached
    /\ runState' = "draining"
    /\ UNCHANGED << run_info, LIMIT_SESSIONS, MAX_WORKERS, dataset_converter, limit, listing, dandisets, pass, lastPass, submitted,
                    PerCall, previous, trial >>

\* Lines 95, 111 without the wait for the futures.
run_returns_early ==
    /\ runState = "draining"
    /\ runState' = "returned"
    /\ UNCHANGED << run_info, LIMIT_SESSIONS, MAX_WORKERS, dataset_converter, limit, listing, dandisets, pass, lastPass, submitted,
                    PerCall, previous, trial >>

\* Lines 95, 111: every future is done and the executor is shut down.
run_returns ==
    /\ runState = "draining"
    /\ \A u \in Ids : Dispatched(u) => pc[u] \in Terminal
    /\ runState' = "returned"
    /\ UNCHANGED << run_info, LIMIT_SESSIONS, MAX_WORKERS, dataset_converter, limit, listing, dandisets, pass, lastPass, submitted,
                    PerCall, previous, trial >>

\* The batch is terminated from outside: every call stops where it is.
interrupt ==
    /\ Running
    /\ runState' = "killed"
    /\ UNCHANGED << run_info, LIMIT_SESSIONS, MAX_WORKERS, dataset_converter, limit, listing, dandisets, pass, lastPass, submitted,
                    PerCall, previous, trial >>

\* Line 428: the batch is invoked again, with the same configuration.
run_again ==
    /\ runState \in {"returned", "killed"}
    /\ pass < lastPass
    /\ pass' = pass + 1
    /\ runState' = "listing"
    /\ submitted' = 0
    /\ pc' = [u \in Ids |-> "idle"]
    /\ bids_dandiset_branch_name' = [u \in Ids |-> "unknown"]
    /\ raised' = [u \in Ids |-> 0]
    /\ exception' = [u \in Ids |-> "none"]
    /\ log_writes' = [u \in Ids |-> 0]
    /\ messages' = [u \in Ids |-> FALSE]
    /\ decision' = [u \in Ids |-> NoDecision]
    /\ previous' = [u \in Ids |-> [pc |-> pc[u], exception |-> exception[u]]]
    /\ UNCHANGED << run_info, LIMIT_SESSIONS, MAX_WORKERS, dataset_converter, limit, listing, dandisets, lastPass, logs, mirror,
                    remote, repo, trial >>

(***************************************************************************)
(* Initial states: the configuration of the invocation and what earlier    *)
(* runs have left of each Dandiset on GitHub and on disk.                  *)
(***************************************************************************)
NoTrial == [response |-> Response(0, NoInfo), version |-> EmptyString, LIMIT |-> None,
            did |-> "none", version2 |-> EmptyString, LIMIT2 |-> None, did2 |-> "none"]

\* The branch of the nwb2bids checkout (line 79): the two of BRANCH_MAP, or another.
Nwb2bidsBranches == {"main", "alternative_sanitization", "some_feature"}

CurrentVersions ==
    { Str(TRUE, << Rel(<< 0, 10 >>) >>),
      Str(TRUE, << Rel(<< 0, 10, 0 >>), Num(2), Hash >>) }

\* run_info.json files of earlier runs: of the version v0.10.0 with every limit,
\* and one of before the version was recorded.
EarlierRunInfos ==
    {RunInfoBody(Some(Str(TRUE, << Rel(<< 0, 10, 0 >>) >>)), l) : l \in Limits}
    \cup {RunInfoBody(None, None)}

\* An earlier run has left a session that the Dandiset no longer has.
EarlierTree(info) ==
    [PublishedTree(0, EmptyString, None, TRUE) EXCEPT
       !.info = info,
       !.bids = { Dir(<< sub_01 >>), Dir(<< sub_01, ses_03 >>),
                  File(<< sub_01, ses_03, tsv_1_3 >>) }]

Earlier ==
    { [mirror |-> "absent", remote |-> NoRemote, repo |-> NoRepo],
      [mirror |-> "ready", remote |-> [NoRemote EXCEPT !["draft"] = Some(EmptyTree)],
       repo |-> NoRepo] }
    \cup { [mirror |-> "ready",
            remote |-> [NoRemote EXCEPT !["draft"] = Some(EarlierTree(info))],
            repo |-> IF cloned THEN ClonedRepo(EarlierTree(info)) ELSE NoRepo] :
           info \in EarlierRunInfos, cloned \in BOOLEAN }

Untouched == [mirror |-> "absent", remote |-> NoRemote, repo |-> NoRepo]

InitOf(listings, counts, passes, versions, limits, earlier, converters, workers) ==
    /\ run_info \in [nwb2bids_version : versions, nwb2bids_branch : Nwb2bidsBranches]
    /\ LIMIT_SESSIONS \in limits
    /\ MAX_WORKERS \in workers
    /\ limit \in counts
    /\ listing \in listings
    /\ dataset_converter \in [Ids -> converters]
    /\ \A u \in Ids : ~Listed(u) => dataset_converter[u] = OneSession
    /\ dandisets = << >>
    /\ pass = 1
    /\ lastPass = passes
    /\ runState = "listing"
    /\ submitted = 0
    /\ pc = [u \in Ids |-> "idle"]
    /\ bids_dandiset_branch_name = [u \in Ids |-> "unknown"]
    /\ raised = [u \in Ids |-> 0]
    /\ exception = [u \in Ids |-> "none"]
    /\ log_writes = [u \in Ids |-> 0]
    /\ logs = {}
    /\ messages = [u \in Ids |-> FALSE]
    /\ decision = [u \in Ids |-> NoDecision]
    /\ previous = [u \in Ids |-> NoPrevious]
    /\ trial = NoTrial
    /\ \E before \in [Ids -> earlier] :
         /\ \A u \in Ids : ~Listed(u) => before[u] = Untouched
         /\ mirror = [u \in Ids |-> before[u].mirror]
         /\ remote = [u \in Ids |-> before[u].remote]
         /\ repo = [u \in Ids |-> before[u].repo]

\* The initial states with MAX_WORKERS as line 28 has it.
InitWith(listings, counts, passes, versions, limits, earlier, converters) ==
    InitOf(listings, counts, passes, versions, limits, earlier, converters, {None})

convert_dandiset(u) ==
    \/ probe_repo(u)
    \/ fork_repo(u)
    \/ sleep_30(u)
    \/ fetch_run_info(u)
    \/ clone_or_fetch(u)
    \/ branch_map(u)
    \/ checkout(u)
    \/ get_current_branch(u)
    \/ git_pull(u)
    \/ clean_repo(u)
    \/ extract_metadata(u)
    \/ write_cleanup(u)
    \/ convert_to_bids_dataset(u)
    \/ write_bidsignore(u)
    \/ write_description(u)
    \/ write_notifications(u)
    \/ validate_txt(u)
    \/ validate_json(u)
    \/ reserialize_json(u)
    \/ write_run_info(u)
    \/ write_manifest_txt(u)
    \/ configure_git_repo(u)
    \/ git_add(u)
    \/ git_commit(u)
    \/ git_push(u)

(***************************************************************************)
(* Spec: one Dandiset in the catalog, over several invocations of run().   *)
(***************************************************************************)
Init ==
    InitWith({<< Identifier(1) >>}, {None}, MaxPasses, CurrentVersions, Limits, Earlier,
             {OneSession})

Next ==
    \/ get_dandisets
    \/ submit
    \/ as_completed
    \/ run_returns
    \/ interrupt
    \/ run_again
    \/ \E u \in Ids : convert_dandiset(u)
    \/ \E u \in Ids : fork_completes(u)

Spec == Init /\ [][Next]_vars

(***************************************************************************)
(* BatchSpec: one invocation of run() over a catalog of NumDandisets       *)
(* Dandisets, each never forked, forked, or published by an earlier run.   *)
(***************************************************************************)
Catalog == [i \in 1..NumDandisets |-> Identifier(i)]

BatchVersions == { Str(TRUE, << Rel(<< 0, 10 >>) >>) }

BatchEarlier ==
    { e \in Earlier : e.repo = NoRepo
                      /\ (e.remote["draft"] # None =>
                            e.remote["draft"][1].info \in {NoInfo, RunInfoBody(Some(Str(TRUE, << Rel(<< 0, 10, 0 >>) >>)), None)}) }

InitBatch == InitWith({Catalog}, {None}, 1, BatchVersions, {None}, BatchEarlier, {OneSession})

NextBatch ==
    \/ get_dandisets
    \/ submit
    \/ as_completed
    \/ run_returns
    \/ interrupt
    \/ \E u \in Ids : convert_dandiset(u)
    \/ \E u \in Ids : fork_completes(u)

BatchSpec == InitBatch /\ [][NextBatch]_vars

(***************************************************************************)
(* SchedSpec: one invocation of run(limit) over a catalog that the service *)
(* lists in any order.                                                     *)
(***************************************************************************)
Listings ==
    {[i \in 1..NumDandisets |-> Identifier(f[i])] :
        f \in {g \in [1..NumDandisets -> Ids] : \A i, j \in 1..NumDandisets : g[i] = g[j] => i = j}}

\* LIMIT_DANDISETS of line 30, passed at line 428: None, or a count up to one
\* more than the catalog holds.
Counts == {None} \cup {Some(k) : k \in 0..(NumDandisets + 1)}

\* No earlier run has published the Dandiset.
Unpublished(u) ==
    \/ mirror[u] = "absent"
    \/ remote[u]["draft"] = None
    \/ remote[u]["draft"][1].files["run_info"] = None

\* The catalogs of which earlier runs have published all Dandisets but one.
OneUnpublished == Cardinality({u \in Ids : Unpublished(u)}) <= 1

InitSched ==
    /\ InitWith(Listings, Counts, 1, BatchVersions, {None}, BatchEarlier, {OneSession})
    /\ OneUnpublished

SchedSpec == InitSched /\ [][NextBatch]_vars

(***************************************************************************)
(* LiveSpec: one invocation of run() that nothing terminates from outside. *)
(* The loop of run() goes on, the pool gives every submitted call a worker *)
(* and every request and subprocess of a call returns; whether GitHub ever *)
(* completes a fork is left open.                                          *)
(***************************************************************************)
InitLive ==
    /\ InitWith({Catalog}, {None}, 1, BatchVersions, {None}, BatchEarlier, {OneSession})
    /\ OneUnpublished

NextLive ==
    \/ get_dandisets
    \/ submit
    \/ as_completed
    \/ run_returns
    \/ \E u \in Ids : convert_dandiset(u)
    \/ \E u \in Ids : fork_completes(u)

LiveSpec ==
    /\ InitLive
    /\ [][NextLive]_vars
    /\ WF_vars(get_dandisets)
    /\ WF_vars(submit)
    /\ WF_vars(as_completed)
    /\ WF_vars(run_returns)
    /\ \A u \in Ids : WF_vars(convert_dandiset(u))

(***************************************************************************)
(* PublishSpec: one Dandiset over MaxPasses invocations with the same      *)
(* configuration, for every converter of Converters and every limit.       *)
(***************************************************************************)
PublishEarlier ==
    { e \in Earlier : \/ e.mirror = "absent"
                      \/ /\ e.repo # NoRepo
                         /\ e.repo.head.info = RunInfoBody(None, None) }

InitPublish ==
    InitWith({<< Identifier(1) >>}, {None}, MaxPasses, BatchVersions, Limits, PublishEarlier,
             Converters)

PublishSpec == InitPublish /\ [][Next]_vars

(***************************************************************************)
(* WorkersSpec: one invocation on the catalog for every setting of         *)
(* MAX_WORKERS and the limits None and 1.                                  *)
(***************************************************************************)
Workers == {None} \cup {Some(n) : n \in 0..NumDandisets}

InitWorkers ==
    /\ InitOf({Catalog}, {None, Some(1)}, 1, BatchVersions, {None}, BatchEarlier, {OneSession},
              Workers)
    /\ OneUnpublished

NextWorkers ==
    \/ get_dandisets
    \/ submit
    \/ start
    \/ no_branch
    \/ as_completed
    \/ run_returns
    \/ \E u \in Ids : convert_dandiset(u)
    \/ \E u \in Ids : fork_completes(u)

WorkersSpec == InitWorkers /\ [][NextWorkers]_vars

(***************************************************************************)
(* RerunSpec: one Dandiset that no earlier run has published, over         *)
(* MaxPasses invocations, for every output of `git describe` as the        *)
(* version of nwb2bids and every limit.                                    *)
(***************************************************************************)
NeverPublished == {e \in Earlier : e.repo = NoRepo /\ (e.remote["draft"] # None => e.remote["draft"][1] = EmptyTree)}

InitRerun ==
    InitWith({<< Identifier(1) >>}, {None}, MaxPasses, DescribeOutputs, Limits, NeverPublished,
             {OneSession})

RerunSpec == InitRerun /\ [][Next]_vars

(***************************************************************************)
(* ScanSpec: the scan of lines 375-380 on every tree of Trees.             *)
(***************************************************************************)

NotTrial == << run_info, LIMIT_SESSIONS, MAX_WORKERS, dataset_converter, limit, listing, dandisets, pass, lastPass,
               runState, submitted, PerCall, previous >>

\* No call, no repository: only `trial` changes.
Quiescent ==
    /\ run_info = [nwb2bids_version |-> EmptyString, nwb2bids_branch |-> "main"]
    /\ LIMIT_SESSIONS = None
    /\ MAX_WORKERS = None
    /\ dataset_converter = [u \in Ids |-> OneSession]
    /\ limit = None
    /\ listing = << >>
    /\ dandisets = << >>
    /\ pass = 1
    /\ lastPass = 1
    /\ runState = "returned"
    /\ submitted = 0
    /\ pc = [u \in Ids |-> "idle"]
    /\ bids_dandiset_branch_name = [u \in Ids |-> "unknown"]
    /\ raised = [u \in Ids |-> 0]
    /\ exception = [u \in Ids |-> "none"]
    /\ log_writes = [u \in Ids |-> 0]
    /\ logs = {}
    /\ messages = [u \in Ids |-> FALSE]
    /\ decision = [u \in Ids |-> NoDecision]
    /\ previous = [u \in Ids |-> NoPrevious]
    /\ mirror = [u \in Ids |-> "absent"]
    /\ remote = [u \in Ids |-> NoRemote]
    /\ repo = [u \in Ids |-> NoRepo]

InitScan ==
    /\ \E tree \in Trees : trial = [tree |-> tree, sessions_converted |-> None]
    /\ Quiescent

scan_sessions ==
    /\ trial.sessions_converted = None
    /\ trial' = [trial EXCEPT !.sessions_converted = Some(sessions_converted(trial.tree))]
    /\ UNCHANGED NotTrial

NextScan == scan_sessions

ScanSpec == InitScan /\ [][NextScan]_vars

(***************************************************************************)
(* RecSpec: the decision of lines 152-169 on drawn inputs, taken once and  *)
(* then again for a current version or limit that demands at least as much.*)
(***************************************************************************)
TrialLimits == {None} \cup {Some(n) : n \in 1..MaxTrialLimit}

TrialBodies ==
    {RunInfoBody(Some(v), l) : v \in DescribeOutputs, l \in TrialLimits}
    \cup {RunInfoBody(None, l) : l \in TrialLimits}
    \cup {NotJson, JsonArray}

TrialResponses ==
    {Response(200, b) : b \in TrialBodies} \cup {Response(404, NoInfo), Response(403, NoInfo)}

InitTrial ==
    /\ \E response \in TrialResponses, version \in DescribeOutputs, LIMIT \in TrialLimits :
         trial = [NoTrial EXCEPT !.response = response, !.version = version, !.LIMIT = LIMIT]
    /\ run_info = [nwb2bids_version |-> EmptyString, nwb2bids_branch |-> "main"]
    /\ LIMIT_SESSIONS = None
    /\ MAX_WORKERS = None
    /\ dataset_converter = [u \in Ids |-> OneSession]
    /\ limit = None
    /\ listing = << >>
    /\ dandisets = << >>
    /\ pass = 1
    /\ lastPass = 1
    /\ runState = "returned"
    /\ submitted = 0
    /\ pc = [u \in Ids |-> "idle"]
    /\ bids_dandiset_branch_name = [u \in Ids |-> "unknown"]
    /\ raised = [u \in Ids |-> 0]
    /\ exception = [u \in Ids |-> "none"]
    /\ log_writes = [u \in Ids |-> 0]
    /\ logs = {}
    /\ messages = [u \in Ids |-> FALSE]
    /\ decision = [u \in Ids |-> NoDecision]
    /\ previous = [u \in Ids |-> NoPrevious]
    /\ mirror = [u \in Ids |-> "absent"]
    /\ remote = [u \in Ids |-> NoRemote]
    /\ repo = [u \in Ids |-> NoRepo]

decide ==
    /\ trial.did = "none"
    /\ trial' = [trial EXCEPT !.did = Reconcile(trial.response, trial.version, trial.LIMIT)]
    /\ UNCHANGED NotTrial

\* l2 demands more sessions than l
DemandsMore(l2, l) ==
    IF l = None THEN FALSE ELSE IF l2 = None THEN TRUE ELSE l2[1] > l[1]

decide_again ==
    /\ trial.did # "none"
    /\ trial.did2 = "none"
    /\ \E version2 \in DescribeOutputs, LIMIT2 \in TrialLimits :
         /\ ParseTag(version2).valid
         /\ ParseTag(trial.version).valid
         /\ \/ VersionGE(ParseTag(version2), ParseTag(trial.version)) /\ LIMIT2 = trial.LIMIT
            \/ version2 = trial.version /\ DemandsMore(LIMIT2, trial.LIMIT)
         /\ trial' = [trial EXCEPT !.version2 = version2, !.LIMIT2 = LIMIT2,
                                   !.did2 = Reconcile(trial.response, version2, LIMIT2)]
    /\ UNCHANGED NotTrial

NextTrial == decide \/ decide_again

RecSpec == InitTrial /\ [][NextTrial]_vars


(***************************************************************************)
(* Properties.                                                             *)
(***************************************************************************)
PreviousVersion(body) ==
    ParseTag(IF body.nwb2bids_version = None THEN EmptyString ELSE body.nwb2bids_version[1])

Readable(body) == body.kind = "object" /\ PreviousVersion(body).valid

\* The rule as stated: previous_version >= current_version and (previous_limit
\* is unbounded or previous_limit >= current_limit).
StatedSkip(body, version, LIMIT) ==
    /\ VersionGE(PreviousVersion(body), ParseTag(version))
    /\ IF body.limit = None THEN TRUE
       ELSE IF LIMIT = None THEN FALSE
       ELSE body.limit[1] >= LIMIT[1]

\* C1: for a fetched, readable previous run_info.json the call skips the
\* Dandiset (ends before any clone) if and only if the previous version is at
\* least the current one and the previous limit is unbounded or at least the
\* current limit; otherwise it goes on to clone or fetch.
C1_ReconcilerRule ==
    \A u \in Ids :
        (decision[u].did \in {"skip", "run"}
         /\ decision[u].response.status_code = 200
         /\ Readable(decision[u].response.body))
        => (decision[u].did = "skip"
              <=> StatedSkip(decision[u].response.body, run_info.nwb2bids_version,
                             LIMIT_SESSIONS))

\* C2: while a run that the decision started has not completed its push, the
\* run_info.json that GitHub serves still makes the decision "run": an
\* interruption at any such point is followed by a retry.
C2_CrashOnlyRecovery ==
    \A u \in Ids :
        (decision[u].did = "run" /\ pc[u] # "done")
        => Reconcile(RawContent(u), run_info.nwb2bids_version, LIMIT_SESSIONS) = "run"

C2_Witness ==
    /\ runState = "killed"
    /\ \E u \in Ids :
         /\ decision[u].did = "run"
         /\ pc[u] = "push"
         /\ repo[u].head.files["run_info"] = Some(pass)

\* Where a call that raises nothing ends, given the responses it received.
Outcome(u) ==
    CASE decision[u].did = "skip" -> "skipped"
      [] decision[u].did = "abstain" -> "abstained"
      [] decision[u].did = "run" -> "done"
      [] OTHER -> IF decision[u].response.status_code = 403 THEN "abstained" ELSE "returned"

\* C3: no exception of a call reaches run(), and every call that raises
\* nothing ends where its own responses lead it, whatever its siblings do;
\* run() returns once every submitted call has ended.
C3_BatchIsolation ==
    /\ runState # "raised"
    /\ \A u \in Ids : (pc[u] \in Terminal /\ raised[u] = 0) => pc[u] = Outcome(u)
    /\ runState = "returned" => \A u \in Ids : Dispatched(u) => pc[u] \in Terminal

C3_Witness ==
    /\ runState = "returned"
    /\ \E u, v \in Ids :
         /\ pc[u] = "failed"
         /\ pc[v] = "done"
         /\ remote[v]["draft"] # None
         /\ remote[v]["draft"][1].files["run_info"] = Some(pass)

\* C4: a call has failed exactly when it has raised, it raises at most once in
\* a pass, and each exception has written one failure record, named by the
\* Dandiset and the branch label, "unknown" when the label is not yet set.
C4_FailureRecord ==
    /\ \A u \in Ids :
         /\ raised[u] <= 1
         /\ log_writes[u] = raised[u]
         /\ pc[u] = "failed" <=> raised[u] = 1
         /\ raised[u] = 1 => << u, bids_dandiset_branch_name[u] >> \in logs
    /\ \A name \in logs : name[1] \in Ids /\ name[2] \in Branches \cup {"unknown"}

C4_Witness ==
    \E u \in Ids :
        /\ pc[u] = "failed"
        /\ bids_dandiset_branch_name[u] = "unknown"
        /\ << u, "unknown" >> \in logs

\* C5: run_info.json is written after .bidsignore, the derivatives
\* description, the notifications dump and the validator reports, and once
\* it is written in a run nothing else of the working copy is written.
C5_ManifestLast ==
    [][\A u \in Ids :
         (repo[u].tree.files["run_info"] = Some(pass) /\ pass' = pass)
         => /\ repo[u].tree.files["bidsignore"] = Some(pass)
            /\ repo[u].tree.files["description"] = Some(pass)
            /\ (messages[u] => repo[u].tree.files["notifications"] = Some(pass))
            /\ repo'[u].tree = repo[u].tree]_vars

\* The files, other than run_info.json, that every run writes.
EveryRun == {"bidsignore", "description", "bids_subjects", "bids_toplevel", "manifest_txt"}

\* C6: on every branch of every repository on GitHub, the run_info.json of a
\* run is there if and only if the other files of that run are there; for the
\* run of the current pass these are all the files it has written.
C6_RemoteCompletion ==
    \A u \in Ids, b \in Branches :
        remote[u][b] # None =>
            LET t == remote[u][b][1]
            IN  /\ \A r \in 0..MaxPasses :
                     t.files["run_info"] = Some(r) <=> \A a \in EveryRun : t.files[a] = Some(r)
                /\ t.files["run_info"] = Some(pass) =>
                     \A a \in Artifacts :
                         repo[u].head.files[a] = Some(pass) => t.files[a] = Some(pass)

C6_Witness ==
    \E u \in Ids :
        /\ pass > 1
        /\ pc[u] = "done"
        /\ remote[u]["draft"] # None
        /\ remote[u]["draft"][1].files["run_info"] = Some(pass)
        /\ remote[u]["draft"][1].files["notifications"] = None

AfterBranchCheck ==
    {"pull", "clean", "convert", "write_cleanup", "write_convert", "write_bidsignore",
     "write_description", "write_notifications", "validate_txt", "validate_json",
     "reserialize", "write_run_info", "write_manifest_txt", "configure", "add",
     "commit", "push", "done"}

\* C7: wherever a call pulls, cleans, converts, writes, commits or pushes, the
\* current branch of its working copy is the target branch.
C7_BranchInvariant ==
    \A u \in Ids :
        pc[u] \in AfterBranchCheck
        => /\ repo[u].branch = bids_dandiset_branch_name[u]
           /\ bids_dandiset_branch_name[u] = BRANCH_MAP[run_info.nwb2bids_branch]

\* The checkout succeeded, the branch is another one, and the call has raised.
C7_Witness ==
    \E u \in Ids :
        /\ pc[u] = "failed"
        /\ bids_dandiset_branch_name[u] \in Branches
        /\ repo[u].exists
        /\ bids_dandiset_branch_name[u] \in repo[u].branches
        /\ repo[u].branch = "detached"

\* C8: for a fixed previous run_info.json, a decision "run" stays "run" when
\* the current version is raised or the current limit demands more sessions.
C8_Monotone ==
    (trial.did = "run" /\ trial.did2 # "none") => trial.did2 = "run"

\* C9: an absent run_info.json, and one that cannot be read as a manifest,
\* make the decision "run": the call goes on to clone or fetch and does not
\* end as skipped or failed there.
C9_UnreadableMeansRun ==
    \A u \in Ids :
        /\ (decision[u].response.status_code = 404 /\ decision[u].did # "none")
           => decision[u].did = "run"
        /\ (decision[u].response.status_code = 200 /\ decision[u].did # "none"
            /\ ~Readable(decision[u].response.body))
           => decision[u].did = "run"

BeforeClone == {"idle", "probe", "fork", "sleep", "fetch_run_info", "abstained"}

\* C10: a 403 response to the probe, the fork request or the fetch of
\* run_info.json ends the call as abstained, with no exception and no failure
\* record; a call that abstains has not touched its working copy and pushes
\* nothing; run() is not affected.
C10_AccessDenialAbstains ==
    /\ [](\A u \in Ids :
            /\ decision[u].response.status_code = 403 => pc[u] = "abstained"
            /\ pc[u] = "abstained"
               => raised[u] = 0 /\ log_writes[u] = 0 /\ runState # "raised")
    /\ [][\A u \in Ids :
            pc'[u] = "abstained"
            => /\ pc[u] \in BeforeClone
               /\ repo'[u] = repo[u]
               /\ {name \in logs' : name[1] = u} = {name \in logs : name[1] = u}
               /\ (remote'[u] = remote[u] \/ mirror[u] = "requested")]_vars

C10_Witness ==
    /\ runState = "returned"
    /\ \E u, v \in Ids :
         /\ pc[u] = "abstained"
         /\ decision[u].did = "abstain"
         /\ pc[v] = "done"

\* The place of a listed Dandiset in the ascending order of the numbers.
Rank(u) == Cardinality({v \in Ids : Listed(v) /\ v <= u})

\* The first K Dandisets of that order, all of them when K is None.
InPrefix(u) == Listed(u) /\ (limit = None \/ Rank(u) <= limit[1])

\* C11: run(limit=K) submits no Dandiset outside the K of smallest number
\* (all when K is None or exceeds the catalog), has submitted every one of
\* them when its loop is over, and submits them in ascending order of their
\* numbers: when one is submitted, every listed one of smaller number has
\* been.
C11_OrderAndTruncation ==
    /\ [](\A u \in Ids : pc[u] # "idle" => InPrefix(u))
    /\ [](runState \in {"draining", "returned"}
            => \A u \in Ids : InPrefix(u) => pc[u] # "idle")
    /\ [][\A u \in Ids :
            (pc[u] = "idle" /\ pc'[u] # "idle")
            => \A v \in Ids : (Listed(v) /\ v < u) => pc[v] # "idle"]_vars

\* The service lists the catalog in another order than the sorted one and
\* the limit cuts it: the Dandiset of smallest number ran, the others did not.
C11_Witness ==
    /\ runState = "returned"
    /\ limit = Some(1)
    /\ listing[1] # Identifier(1)
    /\ pc[1] \in Terminal
    /\ \A u \in Ids : u # 1 => pc[u] = "idle"

\* C12: run() has returned only when every submitted call has ended; every
\* Dandiset of the catalog is submitted and its call ends, whatever calls
\* have failed before; and run() eventually returns.
C12_DrainBeforeReturn ==
    /\ [](runState = "returned"
            => \A u \in Ids : InPrefix(u) => (Dispatched(u) /\ pc[u] \in Terminal))
    /\ \A u \in Ids : [](pc[u] # "idle" => <>(pc[u] \in Terminal))
    /\ \A u \in Ids : <>(InPrefix(u) => pc[u] \in Terminal)
    /\ <>(runState = "returned")

\* run() has returned, the first call of the catalog has failed before its
\* branch was known and a later one has published.
C12_Witness ==
    /\ runState = "returned"
    /\ submitted = NumDandisets
    /\ << 1, "unknown" >> \in logs
    /\ \E v \in Ids : v > 1 /\ pc[v] = "done"

\* Where a call is once lines 128-147 are behind it and it has not ended there.
Proceeded ==
    {"fetch_run_info", "skipped", "clone_or_fetch", "branch_map", "checkout",
     "get_current_branch"} \cup AfterBranchCheck

C15_CleanSlate ==
    \A u \in Ids :
        pc[u] \in {"convert", "write_convert"}
        => \A a \in Artifacts : repo[u].tree.files[a] = None

\* The local branch that `git checkout -b` made at line 190: the target is
\* no branch of the repository on GitHub.
Created(u) ==
    /\ bids_dandiset_branch_name[u] \in Branches
    /\ repo[u].exists
    /\ bids_dandiset_branch_name[u] \in repo[u].branches
    /\ remote[u][bids_dandiset_branch_name[u]] = None

\* C16: a call whose target branch did not exist on GitHub and was created
\* at line 190 does not fail at the pull of line 200 for want of a branch to
\* pull from: it goes on to the cleaning.
C16_BranchCreation ==
    \A u \in Ids : Created(u) => exception[u] # "RuntimeError: pull"

\* C17: for a working copy on a target branch that tracks no branch of
\* origin, the push that the call issues is the one that sets the upstream.
C17_PushFallback ==
    \A u \in Ids :
        (repo[u].exists
         /\ repo[u].branch = bids_dandiset_branch_name[u]
         /\ repo[u].branch \notin repo[u].upstream
         /\ pc[u] \in AfterBranchCheck)
        => push_command(branch_name_of_push) = "git push --set-upstream"

\* A session directory: a directory named by a session label.
SessionLabelled(n) == n.is_dir /\ n.path[Len(n.path)] \in {ses_01, ses_02, ses_03}

\* A data file somewhere in the directory.
HoldsData(tree, n) ==
    \E m \in tree : ~m.is_dir /\ Below(m.path, n.path) /\ m.path[Len(m.path)].ends_nwb

\* C19: for every tree, sessions_converted is the number of session
\* directories that hold at least one .nwb file; session directories without
\* one are not counted, and a tree without session directories gives 0.
C19_SessionCount ==
    trial.sessions_converted # None
    => /\ trial.sessions_converted[1]
            = Cardinality({n \in trial.tree : SessionLabelled(n) /\ HoldsData(trial.tree, n)})
       /\ (\A n \in trial.tree : ~SessionLabelled(n)) => trial.sessions_converted[1] = 0

\* Three session directories, two of them with a data file: the count is 2.
C19_Witness ==
    /\ trial.sessions_converted = Some(2)
    /\ Cardinality({n \in trial.tree : SessionLabelled(n)}) = 3
    /\ Dir(<< sub_01, ses_03 >>) \in trial.tree
    /\ ~HoldsData(trial.tree, Dir(<< sub_01, ses_03 >>))

\* The working copy holds the run_info.json of this pass, and its last commit
\* the run_info.json of an earlier pass of the behaviour.
Republished(u) ==
    /\ pass > 1
    /\ repo[u].tree.files["run_info"] = Some(pass)
    /\ repo[u].head.files["run_info"] # None
    /\ repo[u].head.files["run_info"][1] \in 1..(pass - 1)

AfterNotifications ==
    {"validate_txt", "validate_json", "reserialize", "write_run_info", "write_manifest_txt",
     "configure", "add", "commit", "push", "done"}

\* C20: once a publish has passed lines 338-340, nwb2bids_notifications.json is
\* in the working copy exactly if this conversion left notifications, and it
\* is then the file this pass wrote: no dump of an earlier run survives.
C20_NotificationsIffNonEmpty ==
    \A u \in Ids :
        pc[u] \in AfterNotifications
        => /\ repo[u].tree.files["notifications"] # None <=> messages[u]
           /\ messages[u] => repo[u].tree.files["notifications"] = Some(pass)

\* The last commit holds the dump of an earlier run, this conversion left no
\* notification, and the working copy to be committed holds no dump.
C20_Witness ==
    \E u \in Ids :
        /\ pc[u] = "commit"
        /\ ~messages[u]
        /\ repo[u].head.files["notifications"] # None
        /\ repo[u].tree.files["notifications"] = None

\* The commands whose exit status the call site ignores (lines 355, 363, 421)
\* and the version-control commands whose exit status it does not.
IgnoredExit == {"validate_txt", "validate_json", "commit"}
FatalExit == {"clone_or_fetch", "checkout", "pull", "add", "push"}

StepAfter(label) ==
    IF label = "validate_txt" THEN "validate_json"
    ELSE IF label = "validate_json" THEN "reserialize"
    ELSE "push"

\* The call of u runs the command of its position within the pass.
Runs(u) == pc'[u] # pc[u] /\ pass' = pass

\* C21: a validator or a commit that exits with a non-zero status leaves the
\* call unfailed and at the next step of the publish; a clone, fetch,
\* checkout -b, pull, add or push that exits with a non-zero status raises:
\* the call is failed at once and has changed neither working copy nor mirror.
C21_ExitCodes ==
    [][\A u \in Ids :
         (Runs(u) /\ decision'[u].returncode # 0)
         => /\ pc[u] \in IgnoredExit
               => (pc'[u] = StepAfter(pc[u]) /\ raised'[u] = raised[u])
            /\ pc[u] \in FatalExit
               => (/\ pc'[u] = "failed"
                   /\ raised'[u] = raised[u] + 1
                   /\ repo'[u] = repo[u]
                   /\ remote'[u] = remote[u])]_vars

\* The second validator has exited with a non-zero status and the call is
\* about to write run_info.json.
C21_Witness ==
    \E u \in Ids :
        /\ pc[u] = "write_run_info"
        /\ decision[u].returncode # 0
        /\ raised[u] = 0

\* An earlier pass of the behaviour has pushed its run_info.json to draft: the
\* call of this pass has not pushed, and draft holds a run_info.json written
\* in an earlier pass.
PublishedEarlier(u) ==
    /\ pass > 1
    /\ pc[u] # "done"
    /\ remote[u]["draft"] # None
    /\ remote[u]["draft"][1].files["run_info"] # None
    /\ remote[u]["draft"][1].files["run_info"][1] \in 1..(pass - 1)

AfterReconciler ==
    {"clone_or_fetch", "branch_map", "checkout", "get_current_branch"} \cup AfterBranchCheck

\* C22: a Dandiset that an earlier pass has published is, in every later pass
\* with the same nwb2bids version and LIMIT_SESSIONS, skipped as soon as
\* GitHub has answered the request of line 151 with its run_info.json: the
\* decision is "skip", and the call never gets to the clone or beyond.
C22_ReinvocationSkips ==
    \A u \in Ids :
        PublishedEarlier(u)
        => /\ pc[u] \notin AfterReconciler
           /\ (decision[u].did # "none" /\ decision[u].response.status_code = 200)
              => decision[u].did = "skip"

\* C22 for the versions that packaging.version parses.
C22_ParsableVersion ==
    ParseTag(run_info.nwb2bids_version).valid => C22_ReinvocationSkips

\* The clone of the pass before this one failed on a mirror GitHub did not
\* yet serve, and nwb2bids is on the branch whose target is draft.
CloneFailedBefore(u) ==
    /\ previous[u].pc = "failed"
    /\ previous[u].exception = "RuntimeError: clone"
    /\ run_info.nwb2bids_branch = "main"

\* What fails a call for a reason of this pass alone: a fault from outside, a
\* mirror still not served, a checkout that lands elsewhere.
FaultsOfThisPass == External \cup {"RuntimeError: clone", "RuntimeError: branch"}

LogsOf(u, files) == {b \in Branches \cup {"unknown"} : << u, b >> \in files}

\* What belongs to the call of u: its position and records, its working copy,
\* its mirror.
Owned(u) ==
    << pc[u], bids_dandiset_branch_name[u], raised[u], exception[u], log_writes[u],
       messages[u], decision[u], repo[u], remote[u], mirror[u], LogsOf(u, logs) >>

\* C24: the Dandisets of the catalog have different working copies and
\* different failure records, and a step of one call changes nothing that
\* belongs to another call, and neither the catalog nor the configuration.
C24_Exclusivity ==
    /\ [](\A u \in Ids, v \in Ids :
            (u # v /\ Listed(u) /\ Listed(v))
            => /\ repo_directory(Identifier(u)) # repo_directory(Identifier(v))
               /\ \A b \in Branches \cup {"unknown"}, c \in Branches \cup {"unknown"} :
                    log_file_path(Identifier(u), b) # log_file_path(Identifier(v), c))
    /\ [][\A u \in Ids :
            pc'[u] # pc[u]
            => /\ \A v \in Ids \ {u} : Owned(v)' = Owned(v)
               /\ pc[u] # "idle" => UNCHANGED << run_info, LIMIT_SESSIONS, dandisets, listing >>]_vars

\* Two calls are under way at once, one writing its working copy, the other
\* failed with its failure record written.
C24_Witness ==
    \E u \in Ids, v \in Ids :
        /\ u # v
        /\ pc[u] = "write_run_info"
        /\ pc[v] = "failed"
        /\ << v, "draft" >> \in logs
        /\ repo[u].exists /\ repo[v].exists

\* Every tree that holds a run_info.json written in the behaviour.
WrittenManifests ==
    {t \in UNION {{repo[u].tree, repo[u].head} \cup {remote[u][b][1] : b \in {c \in Branches : remote[u][c] # None}} : u \in Ids} :
        t.files["run_info"] # None /\ t.files["run_info"][1] >= 1}

\* C25: every run_info.json that a publish has written holds a number of
\* converted sessions and a total that is a number or a string, never null.
C25_ManifestFieldTypes ==
    \A t \in WrittenManifests :
        /\ t.info.sessions_converted # None
        /\ t.info.sessions_converted[1] >= 0
        /\ t.info.total_sessions # None
        /\ t.info.total_sessions[1].type \in {"int", "str"}

\* C25 but for the case of more converted sessions than LIMIT_SESSIONS.
C25_UpToLimit ==
    \A t \in WrittenManifests :
        /\ t.info.sessions_converted # None
        /\ (LIMIT_SESSIONS = None \/ t.info.sessions_converted[1] <= LIMIT_SESSIONS[1])
           => /\ t.info.total_sessions # None
              /\ t.info.total_sessions[1].type \in {"int", "str"}

\* C26: whatever MAX_WORKERS is, run(limit=K) has executed the call of each of
\* the first K Dandisets of the catalog when it returns, and of no other; with
\* MAX_WORKERS = 1 one call is executed at a time, in the order of the catalog.
C26_WorkerSettings ==
    /\ [](runState = "returned"
            => \A u \in Ids : IF InPrefix(u) THEN pc[u] \in Terminal ELSE pc[u] = "idle")
    /\ [](MAX_WORKERS = Some(1) => Cardinality(Busy) <= 1)
    /\ [][\A u \in Ids :
            (MAX_WORKERS = Some(1) /\ pc[u] \in {"idle", "queued"} /\ pc'[u] = "probe")
            => \A v \in Ids : (Listed(v) /\ v < u) => pc[v] \in Terminal]_vars

\* C26 for the settings other than 0.
C26_PoolBranch ==
    /\ []((pool_branch /\ runState = "returned")
            => \A u \in Ids : IF InPrefix(u) THEN pc[u] \in Terminal ELSE pc[u] = "idle")
    /\ [](MAX_WORKERS = Some(1) => Cardinality(Busy) <= 1)
    /\ [][\A u \in Ids :
            (MAX_WORKERS = Some(1) /\ pc[u] \in {"idle", "queued"} /\ pc'[u] = "probe")
            => \A v \in Ids : (Listed(v) /\ v < u) => pc[v] \in Terminal]_vars

\* C27: a call is skipped only if the branch that the run targets holds, on
\* GitHub, a run_info.json for which the rule of lines 155-164 says skip.
C27_SkipPerTargetBranch ==
    \A u \in Ids :
        (pc[u] = "skipped" /\ run_info.nwb2bids_branch \in DOMAIN BRANCH_MAP)
        => LET target == BRANCH_MAP[run_info.nwb2bids_branch]
           IN  /\ remote[u][target] # None
               /\ remote[u][target][1].files["run_info"] # None
               /\ Reconcile(Response(200, remote[u][target][1].info),
                            run_info.nwb2bids_version, LIMIT_SESSIONS) = "skip"

\* C27 for the runs that target draft.
C27_TargetDraft ==
    run_info.nwb2bids_branch = "main" => C27_SkipPerTargetBranch

\* run_info.json is on the branch of GitHub that the working copy is on.
ManifestPushed(u) ==
    /\ repo[u].exists
    /\ repo[u].branch \in Branches
    /\ remote[u][repo[u].branch] # None
    /\ remote[u][repo[u].branch][1].files["run_info"] # None

\* The call has ended published with its run_info.json pushed, or skipped as
\* up to date, or abstained on a 403, or failed with its failure record.
Accounted(u) ==
    \/ pc[u] = "done" /\ ManifestPushed(u)
    \/ pc[u] = "skipped" /\ decision[u].did = "skip"
    \/ pc[u] = "abstained" /\ decision[u].response.status_code = 403
    \/ /\ pc[u] = "failed"
       /\ log_writes[u] = 1
       /\ << u, bids_dandiset_branch_name[u] >> \in logs

\* C28: every call that has ended has ended in one of the four ways: none has
\* ended without publishing, skipping or abstaining and without a failure
\* record.
C28_NoSilentAbandonment ==
    \A u \in Ids : pc[u] \in Terminal => Accounted(u)

\* C28 for the calls whose fork request is not rejected.
C28_ButRejectedFork ==
    \A u \in Ids : pc[u] \in Terminal \ {"returned"} => Accounted(u)

\* C28 for the calls whose fork request is not rejected and whose last commit
\* holds a run_info.json when they push.
C28_ButRejectedForkAndFailedCommit ==
    \A u \in Ids :
        (pc[u] \in Terminal \ {"returned"}
         /\ (pc[u] = "done" => repo[u].head.files["run_info"] # None))
        => Accounted(u)

\* C29: when run() has returned, a failure record of a Dandiset exists only
\* if its call has raised in this pass: a Dandiset that failed in the pass
\* before and now is published or skipped has none.
C29_RecordsOfCurrentPass ==
    \A u \in Ids :
        (runState = "returned" /\ LogsOf(u, logs) # {}) => raised[u] > 0

\* C29 within the first pass, and whenever the pass before wrote no record.
C29_FirstPass ==
    \A u \in Ids :
        (runState = "returned" /\ LogsOf(u, logs) # {} /\ previous[u].pc # "failed")
        => raised[u] > 0

(***************************************************************************)
(* ResetSpec: reset_excess_branches.py, lines 54-88.  The script walks the *)
(* Dandisets of the archive in one loop; for each it probes the mirror,    *)
(* clones it when there is no working copy, lists the remote-tracking      *)
(* branches of the working copy and deletes on GitHub every listed branch  *)
(* that is not in skip_branches.  `trial` holds, per Dandiset, the         *)
(* branches of the mirror on GitHub (None: no mirror), the remote-tracking *)
(* branches of the working copy (None: no working copy), both as they were *)
(* when the script started, and the position of the loop.                  *)
(***************************************************************************)
ProtectedBranches == {"draft", "git-annex"}

BranchNames == ProtectedBranches \cup {"basic_sanitization"}

\* Every mirror is a fork with the default branch draft.
BranchSets == {S \in SUBSET BranchNames : "draft" \in S}

Repositories == {None} \cup {Some(S) : S \in BranchSets}

\* A line of `git branch -r`, stripped (line 78): "origin/" and the rest.
Line(rest) == << "origin/", rest >>

HeadLine == Line("HEAD -> origin/draft")

\* Lines 77-78: the remote-tracking branches as the working copy knows them.
git_branch_r(tracking) == {HeadLine} \cup {Line(b) : b \in tracking}

\* Line 79.
skip_branches == {HeadLine, Line("draft"), Line("git-annex")}

\* Line 83: str.removeprefix("origin/").
removeprefix_origin(branch) ==
    IF Len(branch) > 0 /\ branch[1] = "origin/" THEN Tail(branch) ELSE branch

\* Lines 40-51 of reset_excess_branches.py: a nonzero exit raises unless ignored.
reset_deploy_subprocess(returncode, ignore_errors) ==
    IF returncode # 0 /\ ~ignore_errors THEN "raise" ELSE "return"

NoReset ==
    [github |-> [u \in Ids |-> None], clone |-> [u \in Ids |-> None],
     github_before |-> [u \in Ids |-> None], clone_before |-> [u \in Ids |-> None],
     status_code |-> [u \in Ids |-> 0], i |-> 1, at |-> "probe",
     branches_to_delete |-> {}]

InitReset ==
    /\ \E github \in [Ids -> Repositories], clone \in [Ids -> Repositories] :
         trial = [NoReset EXCEPT !.github = github, !.github_before = github,
                                 !.clone = clone, !.clone_before = clone]
    /\ Quiescent

\* Lines 58 and 65: the loop goes on to the next Dandiset, or the script ends.
NextDandiset(t) ==
    [t EXCEPT !.i = t.i + 1, !.branches_to_delete = {},
              !.at = IF t.i + 1 > NumDandisets THEN "returned" ELSE "probe"]

\* Lines 61-65: the probe; any status but 200 skips the Dandiset.
reset_probe ==
    /\ trial.at = "probe"
    /\ LET u == trial.i IN
       \E status_code \in IF trial.github[u] = None THEN {404} ELSE {200, 403} :
         LET probed == [trial EXCEPT !.status_code[u] = status_code] IN
         trial' = IF status_code # 200 THEN NextDandiset(probed)
                  ELSE [probed EXCEPT !.at = "clone"]
    /\ UNCHANGED NotTrial

\* Lines 68-72: a missing working copy is cloned; a failure of the clone is ignored.
reset_clone ==
    /\ trial.at = "clone"
    /\ LET u == trial.i IN
       \E returncode \in {0, 128} :
         trial' = IF trial.clone[u] = None
                     /\ returncode = 0
                     /\ reset_deploy_subprocess(returncode, TRUE) = "return"
                  THEN [trial EXCEPT !.clone[u] = trial.github[u], !.at = "branch_r"]
                  ELSE [trial EXCEPT !.at = "branch_r"]
    /\ UNCHANGED NotTrial

\* Lines 77-80: `git branch -r` in the working copy, which fails without one.
reset_branch_r ==
    /\ trial.at = "branch_r"
    /\ LET u == trial.i
           returncode == IF trial.clone[u] = None THEN 1 ELSE 0 IN
       trial' = IF reset_deploy_subprocess(returncode, FALSE) = "raise"
                THEN [trial EXCEPT !.at = "raised"]
                ELSE [trial EXCEPT !.at = "delete",
                                   !.branches_to_delete =
                                       git_branch_r(trial.clone[u][1]) \ skip_branches]
    /\ UNCHANGED NotTrial

\* Lines 82-88: one turn of the loop over branches_to_delete, or its end.  The
\* push deletes a branch the mirror has, and fails for one it has not (or for
\* any other reason); a failure raises out of the script.  The two
\* `git branch -D` of lines 85-86 concern local branches only.
reset_delete ==
    /\ trial.at = "delete"
    /\ LET u == trial.i IN
       IF trial.branches_to_delete = {}
       THEN trial' = NextDandiset(trial)
       ELSE \E branch \in trial.branches_to_delete :
              LET branch_name == removeprefix_origin(branch)[1] IN
              \E returncode \in IF branch_name \in trial.github[u][1] THEN {0, 1} ELSE {1} :
                trial' = IF reset_deploy_subprocess(returncode, FALSE) = "raise"
                         THEN [trial EXCEPT !.at = "raised"]
                         ELSE [trial EXCEPT
                                 !.github[u] = Some(trial.github[u][1] \ {branch_name}),
                                 !.clone[u] = Some(trial.clone[u][1] \ {branch_name}),
                                 !.branches_to_delete = trial.branches_to_delete \ {branch}]
    /\ UNCHANGED NotTrial

reset_excess_branches == reset_probe \/ reset_clone \/ reset_branch_r \/ reset_delete

ResetSpec == InitReset /\ [][reset_excess_branches]_vars

\* The protected branches a mirror had are still there.
ProtectedKept(u) ==
    IF trial.github_before[u] = None THEN trial.github[u] = None
    ELSE /\ trial.github[u] # None
         /\ trial.github_before[u][1] \cap ProtectedBranches \subseteq trial.github[u][1]

\* A mirror whose probe did not answer 200 is as it was, and so is the working copy.
LeftUntouched(u) ==
    trial.status_code[u] \notin {0, 200}
    => (trial.github[u] = trial.github_before[u] /\ trial.clone[u] = trial.clone_before[u])

\* The script has ended and the mirror, probed with success, has no excess branch.
Cleaned(u) ==
    (trial.at = "returned" /\ trial.status_code[u] = 200)
    => trial.github[u][1] \subseteq ProtectedBranches

\* C30: reset_excess_branches never deletes the draft branch or the git-annex
\* branch of a mirror; once it has run, every mirror that exists and whose
\* probe succeeded has no other branch left; and a mirror whose probe was not
\* successful is left untouched.
C30_BranchReset == \A u \in Ids : ProtectedKept(u) /\ Cleaned(u) /\ LeftUntouched(u)

\* The working copy of u knew every branch of the mirror when the script
\* started, or there was no working copy and the script cloned one.
KnewBranches(u) ==
    IF trial.clone_before[u] = None THEN trial.github_before[u] # None
    ELSE /\ trial.github_before[u] # None
         /\ trial.github_before[u][1] \subseteq trial.clone_before[u][1]

\* C30, the part that holds of every run: the protected branches are kept and
\* an unsuccessfully probed mirror is untouched; and the excess branches are
\* all deleted when the working copy knew them.
C30_KnownBranches ==
    \A u \in Ids : ProtectedKept(u) /\ LeftUntouched(u) /\ (KnewBranches(u) => Cleaned(u))

\* C30: the script ends having deleted an excess branch of the second mirror
\* and kept its protected branches.
C30_Deleted ==
    /\ trial.at = "returned"
    /\ trial.status_code[2] = 200
    /\ "basic_sanitization" \in trial.github_before[2][1]
    /\ trial.github[2] = Some(ProtectedBranches)

====
